---------------------------- MODULE Spec2Model ----------------------------
(***************************************************************************)
(* A model of the Xous TCP shim of the Rust standard library:              *)
(*   library/std/src/sys/xous/net/mod.rs          (TcpStream)              *)
(*   library/std/src/sys/xous/net/tcplistener.rs  (TcpListener)            *)
(*                                                                         *)
(* Every socket operation is one synchronous xous::send_message round trip *)
(* to the network service.  The service is outside the repository: a reply *)
(* is an input of the operation, drawn from a small set.                   *)
(*                                                                         *)
(* Byte buffers (the 4096-byte page lent to the service, the caller's      *)
(* slices) are kept run-length encoded: a buffer is a sequence of runs     *)
(* [b |-> byte, n |-> count], no run empty, no two adjacent runs with the  *)
(* same byte.  The encoding is exact: two buffers are equal iff their      *)
(* encodings are equal.                                                    *)
(*                                                                         *)
(* Option<NonZeroUsize> (xous::MemoryAddress, xous::MemorySize) is kept as *)
(* a natural number, None being 0.                                         *)
(*                                                                         *)
(* Records list their fields, and sets of constants their elements, in the *)
(* order TLC sorts them (fields: the order the names first occur in this   *)
(* module), so that a value shared by TLC's workers is in normal form as   *)
(* written and no worker has to sort it in place.                          *)
(***************************************************************************)
EXTENDS Integers, Sequences, FiniteSets, TLC

(***************************************************************************)
(* Bounds of the model.                                                    *)
(***************************************************************************)
\* Listener objects (a bind result or a duplicate) that ever exist.
MaxAliases == 3
\* Byte lengths 0..MaxSmall, and PAGE-MaxSmall..PAGE+MaxSmall, are drawn for
\* caller buffers and for the valid lengths of replies.
MaxSmall == 1

(***************************************************************************)
(* Program constants.                                                      *)
(***************************************************************************)
\* raw: [u8; 4096]
PAGE == 4096
\* None of Option<NonZeroUsize>
None == 0

NetError_SocketInUse == 2
NetError_Invalid == 4
NetError_LibraryError == 6
NetError_TimedOut == 8
NetError_WouldBlock == 9

Min(a, b) == IF a <= b THEN a ELSE b

(***************************************************************************)
(* Run-length encoded byte buffers.                                        *)
(***************************************************************************)
Run(n, b) == IF n <= 0 THEN <<>> ELSE <<[b |-> b, n |-> n]>>

RECURSIVE RLen(_)
RLen(r) == IF r = <<>> THEN 0 ELSE Head(r).n + RLen(Tail(r))

\* Append run x to canonical r, keeping it canonical.
RPush(r, x) ==
    IF r = <<>> THEN <<x>>
    ELSE IF r[Len(r)].b = x.b
         THEN [r EXCEPT ![Len(r)] = [b |-> x.b, n |-> @.n + x.n]]
         ELSE Append(r, x)

RECURSIVE RCat(_, _)
RCat(r, s) == IF s = <<>> THEN r ELSE RCat(RPush(r, Head(s)), Tail(s))

RECURSIVE RTake(_, _)
RTake(r, k) ==
    IF k <= 0 \/ r = <<>> THEN <<>>
    ELSE IF Head(r).n >= k THEN Run(k, Head(r).b)
         ELSE <<Head(r)>> \o RTake(Tail(r), k - Head(r).n)

RECURSIVE RDrop(_, _)
RDrop(r, k) ==
    IF k <= 0 \/ r = <<>> THEN r
    ELSE IF Head(r).n > k THEN <<[b |-> Head(r).b, n |-> Head(r).n - k]>> \o Tail(r)
         ELSE RDrop(Tail(r), k - Head(r).n)

\* The byte at 0-based position i (i < RLen(r)).
RECURSIVE RAt(_, _)
RAt(r, i) == IF i < Head(r).n THEN Head(r).b ELSE RAt(Tail(r), i - Head(r).n)

RECURSIVE RBytes(_)
RBytes(s) == IF s = <<>> THEN <<>> ELSE RCat(Run(1, Head(s)), RBytes(Tail(s)))

\* [0u8; 4096] with the bytes of s written from position `at` on.
ZeroPage == Run(PAGE, 0)
PokeAt(buf, at, s) ==
    RCat(RCat(RTake(buf, at), RBytes(s)), RDrop(buf, at + Len(s)))

\* dest.iter_mut().zip(src): the first min(len) elements of dest overwritten.
ZipCopy(dest, src) ==
    LET k == Min(RLen(dest), RLen(src))
    IN  RCat(RTake(src, k), RDrop(dest, k))

U16LE(buf, i) == RAt(buf, i) + 256 * RAt(buf, i + 1)
\* A port written big-endian.
BeBytes16(x) == <<x \div 256, x % 256>>
\* u16::to_le_bytes
LeBytes16(x) == <<x % 256, x \div 256>>


(***************************************************************************)
(* Addresses.  A SocketAddr is its IP version, its octets and its port.    *)
(***************************************************************************)
SockAddr(ver, octets, port) == [ver |-> ver, octets |-> octets, port |-> port]
NoAddr == SockAddr(0, <<>>, 0)

\* The addresses callers bind to and connect to.
Addrs ==
    { SockAddr(4, <<0, 0, 0, 0>>, 8080),
      SockAddr(6, <<32, 1, 13, 184, 0, 0, 0, 0, 0, 0, 0, 0, 0, 0, 0, 1>>, 443) }

\* Ipv6Addr::new(a, .., h): eight 16-bit groups, each stored big-endian.
RECURSIVE Ipv6New(_)
Ipv6New(groups) ==
    IF groups = <<>> THEN <<>>
    ELSE <<Head(groups) \div 256, Head(groups) % 256>> \o Ipv6New(Tail(groups))

U16BE(buf, i) == 256 * RAt(buf, i) + RAt(buf, i + 1)

(***************************************************************************)
(* Messages, replies and results.                                          *)
(***************************************************************************)
\* xous::MemoryAddress::new / xous::MemorySize::new: NonZeroUsize::new.
MemoryAddressNew(n) == IF n = 0 THEN None ELSE n
MemorySizeNew(n) == IF n = 0 THEN None ELSE n

\* opcode | (fd << 16), opcode < 2^16
Opcode(base, fd) == base + fd * 65536

LendMut(to, op, buf, offset, valid) ==
    [buf |-> buf, to |-> to, op |-> op, offset |-> offset, valid |-> valid,
     kind |-> "lend_mut", a1 |-> 0]
BlockingScalar(to, op, a1) ==
    [buf |-> <<>>, to |-> to, op |-> op, offset |-> None, valid |-> None,
     kind |-> "scalar", a1 |-> a1]
NoMsg ==
    [buf |-> <<>>, to |-> "", op |-> 0, offset |-> None, valid |-> None,
     kind |-> "none", a1 |-> 0]

\* What send_message returns: Err(_) (tr = "Err") or Ok(xous::Result), and the
\* content of the lent page when the call returns (buf).
Reply(tr, shape, valid, buf, val) ==
    [buf |-> buf, valid |-> valid, tr |-> tr, shape |-> shape, val |-> val]
NoReply == Reply("", "", None, <<>>, 0)
IsMemoryReturned(r) == r.tr = "Ok" /\ r.shape = "MemoryReturned"
IsScalar1(r) == r.tr = "Ok" /\ r.shape = "Scalar1"

\* io::Result
Ok(v) == [kind |-> "", val |-> v, tag |-> "Ok"]
Err(kind) == [kind |-> kind, val |-> 0, tag |-> "Err"]
Panic == [kind |-> "", val |-> 0, tag |-> "Panic"]
NoResult == [kind |-> "", val |-> 0, tag |-> ""]

(***************************************************************************)
(* The replies the network service may give.  A reply to a lend leaves the *)
(* lent page as the request wrote it, except for a prefix the service      *)
(* wrote.                                                                  *)
(***************************************************************************)
\* Handles the service hands out.
Handles == {7, 12}
\* Error codes the service puts in a failing reply: the five of NetError
\* that the shim names, and one it does not.
ErrCodes ==
    { NetError_SocketInUse, 3, NetError_Invalid, NetError_LibraryError,
      NetError_TimedOut, NetError_WouldBlock }
\* Valid lengths a reply declares.
ValidLens == (0 .. MaxSmall) \cup ((PAGE - MaxSmall) .. (PAGE + MaxSmall))

\* Valid lengths a reply with n bytes of fields declares: none, too few, just
\* enough, the page.
ReplyValids(n) == {None, 1, n, PAGE}

LendReplies(req, prefixes, valids) ==
    { Reply("Ok", "MemoryReturned", v, PokeAt(req, 0, p), 0) :
          v \in valids, p \in prefixes }
    \cup { Reply("Ok", "Scalar1", None, PokeAt(req, 0, p), 0) : p \in prefixes }
    \cup { Reply("Err", "", None, req, 0) }

ScalarReplies ==
    { Reply("Ok", "Scalar1", None, <<>>, v) : v \in {0, 1} }
    \cup { Reply("Ok", "Ok", None, <<>>, 0),
           Reply("Ok", "MemoryReturned", None, <<>>, 0),
           Reply("Err", "", None, <<>>, 0) }


(***************************************************************************)
(* State.                                                                  *)
(***************************************************************************)
VARIABLES
    listeners,      \* the TcpListener objects: slot -> fields, and where the
                    \* thread that owns the object is inside duplicate or drop
    handle_count,   \* the Arc<AtomicUsize> of each bind, by the slot of the bind
    closes,         \* per counter, the listener-close messages sent so far
    streams,        \* the TcpStream objects: slot -> fields
    svc,            \* the network service's side of a connection
    cbuf,           \* the caller's buffer after the call, if it took one
    call,           \* the last operation called
    msg,            \* the message it sent (NoMsg if none)
    reply,          \* the reply it got
    result,         \* what it returned
    reads           \* the positions of the returned page it read

vars ==
    <<listeners, handle_count, closes, streams, svc, cbuf,
      call, msg, reply, result, reads>>

Aliases == 1 .. MaxAliases

Call(op, obj, arg) == [op |-> op, obj |-> obj, arg |-> arg]

(***************************************************************************)
(* TcpListener.                                                            *)
(***************************************************************************)
\* struct TcpListener { fd, local, handle_count, nonblocking }: hc names the
\* shared counter.  st is "free" (never created), "live" or "dead" (dropped);
\* pc is "idle", or "dup" (duplicate is past its fetch_add), or "drop" (drop
\* is past its fetch_sub, which returned prev).
Listener(fd, local, hc, nonblocking) ==
    [fd |-> fd, local |-> local, hc |-> hc, nonblocking |-> nonblocking,
     st |-> "live", pc |-> "idle", prev |-> 0]
FreeListener ==
    [fd |-> 0, local |-> NoAddr, hc |-> 0, nonblocking |-> FALSE,
     st |-> "free", pc |-> "idle", prev |-> 0]

Live(a) == listeners[a].st = "live" /\ listeners[a].pc = "idle"
FreeSlots == { a \in Aliases : listeners[a].st = "free" }
\* Objects are created in slot order.
NextSlot == CHOOSE a \in FreeSlots : \A b \in FreeSlots : a <= b
\* A slot is left for a new object, beside those that the duplicates under
\* way will take.
HasSlot ==
    Cardinality(FreeSlots) > Cardinality({ b \in Aliases : listeners[b].pc = "dup" })

\* bind: the request page
BindRequest(addr) ==
    PokeAt(ZeroPage, 0, LeBytes16(addr.port) \o <<addr.ver>> \o addr.octets)
BindMsg(addr) ==
    LendMut("network", 44, BindRequest(addr), None, MemorySizeNew(4096))

\* bind: the error kind for the error code of a failing reply
BindErrorKind(errcode) ==
    IF errcode = NetError_SocketInUse THEN "ResourceBusy"
    ELSE IF errcode = NetError_Invalid THEN "InvalidInput"
    ELSE IF errcode = NetError_LibraryError THEN "Other"
    ELSE "Other"

\* A counter that starts at 0, as a count of the duplicates would.
BindCountZero == 1 - 1
\* Arc::new(AtomicUsize::new(1))
BindCount == 1

\* A bind that does not look at the valid length.
BindResultAnyValid(addr, r, hc) ==
    IF IsMemoryReturned(r)
    THEN IF RAt(r.buf, 0) /= 0
         THEN Err(BindErrorKind(RAt(r.buf, 1)))
         ELSE Ok(Listener(RAt(r.buf, 1), addr, hc, FALSE))
    ELSE Err("InvalidInput")
\* bind: the returned page decoded.  hc is the counter a new listener gets.
BindResult(addr, r, hc) ==
    IF IsMemoryReturned(r)
    THEN IF RAt(r.buf, 0) /= 0 \/ r.valid = None
         THEN Err(BindErrorKind(RAt(r.buf, 1)))
         ELSE Ok(Listener(RAt(r.buf, 1), addr, hc, FALSE))
    ELSE Err("InvalidInput")
BindReads(r) == IF IsMemoryReturned(r) THEN {0, 1} ELSE {}

BindReplies(req) ==
    LendReplies(req, {<<>>, <<0, 7>>} \cup { <<1, e>> : e \in ErrCodes }, ReplyValids(2))
\* The replies that matter to the life of a listener: a handle, a refusal, a
\* failed call.
BindOutcomes(req) ==
    { Reply("Ok", "MemoryReturned", PAGE, PokeAt(req, 0, <<0, h>>), 0) : h \in Handles }
    \cup { Reply("Ok", "MemoryReturned", PAGE,
                 PokeAt(req, 0, <<1, NetError_SocketInUse>>), 0),
           Reply("Err", "", None, req, 0) }

Bind(addr, r) ==
    /\ HasSlot
    /\ LET n == NextSlot
           res == BindResult(addr, r, n)
       IN  /\ listeners' = IF res.tag = "Ok"
                           THEN [listeners EXCEPT ![n] = res.val]
                           ELSE listeners
           /\ handle_count' = IF res.tag = "Ok"
                              THEN [handle_count EXCEPT ![n] = BindCount]
                              ELSE handle_count
           /\ call' = Call("bind", 0, addr)
           /\ msg' = BindMsg(addr)
           /\ reply' = r
           /\ result' = res
           /\ reads' = BindReads(r)
    /\ cbuf' = <<>>
    /\ UNCHANGED <<closes, streams, svc>>

\* A duplicate that clones without counting the clone.
FetchAddForgotten(hc, c) == hc
\* duplicate: self.handle_count.fetch_add(1, Relaxed)
FetchAdd(hc, c) == [hc EXCEPT ![c] = @ + 1]
\* A duplicate that starts blocking, as a listener does after bind.
CloneBlocking(l) == Listener(l.fd, l.local, l.hc, FALSE)
\* duplicate: self.clone() (#[derive(Clone)])
Clone(l) == Listener(l.fd, l.local, l.hc, l.nonblocking)

Duplicate(a) ==
    /\ Live(a)
    /\ HasSlot
    /\ handle_count' = FetchAdd(handle_count, listeners[a].hc)
    /\ listeners' = [listeners EXCEPT ![NextSlot] = Clone(listeners[a])]
    /\ call' = Call("duplicate", a, NextSlot)
    /\ msg' = NoMsg
    /\ reply' = NoReply
    /\ result' = Ok(Clone(listeners[a]))
    /\ reads' = {}
    /\ cbuf' = <<>>
    /\ UNCHANGED <<closes, streams, svc>>

\* drop: self.handle_count.fetch_sub(1, Relaxed)
FetchSub(hc, c) == [hc EXCEPT ![c] = @ - 1]
\* A drop that closes the handle whatever the count.
LastCloneAny(prev) == prev >= 1
\* A test that also takes the last but one for the last.
LastCloneOffByOne(prev) == prev <= 2
\* drop: the value fetch_sub returned tells the last clone
LastClone(prev) == prev = 1
CloseMsg(l) == BlockingScalar("network", Opcode(46, l.fd), 0)

Drop(a, r) ==
    /\ Live(a)
    /\ LET l == listeners[a]
           last == LastClone(handle_count[l.hc])
       IN  /\ handle_count' = FetchSub(handle_count, l.hc)
           /\ listeners' = [listeners EXCEPT ![a].st = "dead",
                                             ![a].prev = handle_count[l.hc]]
           /\ msg' = IF last THEN CloseMsg(l) ELSE NoMsg
           /\ IF last THEN r \in ScalarReplies ELSE r = NoReply
           /\ closes' = IF last THEN [closes EXCEPT ![l.hc] = @ + 1] ELSE closes
           /\ call' = Call("drop", a, handle_count[l.hc])
           /\ reply' = r
           /\ result' = NoResult
           /\ reads' = {}
    /\ cbuf' = <<>>
    /\ UNCHANGED <<streams, svc>>


\* The steps of duplicate and drop when the aliases of a listener are owned by
\* different threads.  The counter is touched by one atomic read-modify-write
\* in each; a thread is inside at most one operation of its own object.
DupFetchAdd(a) ==
    /\ Live(a)
    /\ HasSlot
    /\ handle_count' = FetchAdd(handle_count, listeners[a].hc)
    /\ listeners' = [listeners EXCEPT ![a].pc = "dup"]
    /\ call' = Call("duplicate_fetch_add", a, 0)
    /\ msg' = NoMsg
    /\ reply' = NoReply
    /\ result' = NoResult
    /\ reads' = {}
    /\ cbuf' = <<>>
    /\ UNCHANGED <<closes, streams, svc>>

DupClone(a) ==
    /\ listeners[a].st = "live"
    /\ listeners[a].pc = "dup"
    /\ LET src == [listeners[a] EXCEPT !.pc = "idle"]
       IN  /\ listeners' = [listeners EXCEPT ![a] = src, ![NextSlot] = Clone(src)]
           /\ result' = Ok(Clone(src))
    /\ call' = Call("duplicate", a, NextSlot)
    /\ msg' = NoMsg
    /\ reply' = NoReply
    /\ reads' = {}
    /\ cbuf' = <<>>
    /\ UNCHANGED <<handle_count, closes, streams, svc>>

DropFetchSub(a) ==
    /\ Live(a)
    /\ handle_count' = FetchSub(handle_count, listeners[a].hc)
    /\ listeners' = [listeners EXCEPT ![a].pc = "drop",
                                      ![a].prev = handle_count[listeners[a].hc]]
    /\ call' = Call("drop_fetch_sub", a, handle_count[listeners[a].hc])
    /\ msg' = NoMsg
    /\ reply' = NoReply
    /\ result' = NoResult
    /\ reads' = {}
    /\ cbuf' = <<>>
    /\ UNCHANGED <<closes, streams, svc>>

DropTest(a, r) ==
    /\ listeners[a].st = "live"
    /\ listeners[a].pc = "drop"
    /\ LET l == listeners[a]
           last == LastClone(l.prev)
       IN  /\ listeners' = [listeners EXCEPT ![a].st = "dead", ![a].pc = "idle"]
           /\ msg' = IF last THEN CloseMsg(l) ELSE NoMsg
           /\ IF last THEN r \in ScalarReplies ELSE r = NoReply
           /\ closes' = IF last THEN [closes EXCEPT ![l.hc] = @ + 1] ELSE closes
           /\ call' = Call("drop", a, l.prev)
           /\ reply' = r
           /\ result' = NoResult
           /\ reads' = {}
    /\ cbuf' = <<>>
    /\ UNCHANGED <<handle_count, streams, svc>>


(***************************************************************************)
(* TcpStream objects, and accept, which makes one.                         *)
(***************************************************************************)
\* Stream objects that ever exist.
MaxStreams == 2
StreamIds == 1 .. MaxStreams

\* struct TcpStream { fd, local_port, remote_port, peer_addr, read_timeout,
\* write_timeout }
Stream(fd, local_port, remote_port, peer_addr, read_timeout, write_timeout) ==
    [fd |-> fd, st |-> "live", local_port |-> local_port,
     remote_port |-> remote_port, peer_addr |-> peer_addr,
     read_timeout |-> read_timeout, write_timeout |-> write_timeout]
FreeStream ==
    [fd |-> 0, st |-> "free", local_port |-> 0, remote_port |-> 0,
     peer_addr |-> NoAddr, read_timeout |-> 0, write_timeout |-> 0]

FreeStreams == { s \in StreamIds : streams[s].st = "free" }
NextStream == CHOOSE s \in FreeStreams : \A t \in FreeStreams : s <= t
\* A stream an operation returned: kept in the next free slot; with no slot
\* left the caller lets it go (TcpStream has no Drop).
Keep(res) ==
    IF res.tag = "Ok" /\ FreeStreams /= {}
    THEN [streams EXCEPT ![NextStream] = res.val]
    ELSE streams

\* TcpStream::from_listener(fd, local_port, remote_port, peer_addr)
FromListener(fd, local_port, remote_port, peer_addr) ==
    Stream(fd, local_port, remote_port, peer_addr, 0, 0)

\* An accept that writes the flag itself, 1 for nonblocking.
AcceptRequestFlagAsIs(l) == PokeAt(ZeroPage, 0, <<IF l.nonblocking THEN 1 ELSE 0>>)
\* accept: the request page
AcceptRequest(l) == PokeAt(ZeroPage, 0, <<IF l.nonblocking THEN 0 ELSE 1>>)
AcceptMsg(l) == LendMut("network", Opcode(45, l.fd), AcceptRequest(l), None, None)

\* An accept that tells a busy socket too.
AcceptErrorKindMore(errcode) ==
    IF errcode = NetError_TimedOut THEN "TimedOut"
    ELSE IF errcode = NetError_WouldBlock THEN "WouldBlock"
    ELSE IF errcode = NetError_SocketInUse THEN "ResourceBusy"
    ELSE "Other"
\* accept: the error kind for the error code of a failing reply
AcceptErrorKind(errcode) ==
    IF errcode = NetError_TimedOut THEN "TimedOut"
    ELSE IF errcode = NetError_WouldBlock THEN "WouldBlock"
    ELSE IF errcode = NetError_LibraryError THEN "Other"
    ELSE "Other"

\* An accept that reads the groups of an IPv6 address little-endian.
AcceptAddrGroupsLe(rr, port) ==
    IF RAt(rr, 3) = 4
    THEN SockAddr(4, <<RAt(rr, 4), RAt(rr, 5), RAt(rr, 6), RAt(rr, 7)>>, port)
    ELSE SockAddr(6, Ipv6New([k \in 1 .. 8 |-> U16LE(rr, 2 + 2 * k)]), port)
\* accept: the peer address of a successful reply
AcceptAddr(rr, port) ==
    IF RAt(rr, 3) = 4
    THEN SockAddr(4, <<RAt(rr, 4), RAt(rr, 5), RAt(rr, 6), RAt(rr, 7)>>, port)
    ELSE SockAddr(6, Ipv6New([k \in 1 .. 8 |-> U16BE(rr, 2 + 2 * k)]), port)

\* accept: the returned page decoded; success is the pair (stream, address)
AcceptResult(l, r) ==
    IF IsMemoryReturned(r)
    THEN IF RAt(r.buf, 0) /= 0
         THEN Err(AcceptErrorKind(RAt(r.buf, 1)))
         ELSE IF RAt(r.buf, 3) \in {4, 6}
              THEN Ok(<<FromListener(U16LE(r.buf, 1), l.local.port, U16LE(r.buf, 20),
                                     AcceptAddr(r.buf, U16LE(r.buf, 20))),
                        AcceptAddr(r.buf, U16LE(r.buf, 20))>>)
              ELSE Err("Other")
    ELSE Err("InvalidInput")

AcceptReads(r) ==
    IF ~IsMemoryReturned(r) THEN {}
    ELSE IF RAt(r.buf, 0) /= 0 THEN {0, 1}
    ELSE {0, 1, 2, 3, 20, 21}
         \cup (IF RAt(r.buf, 3) = 4 THEN 4 .. 7
               ELSE IF RAt(r.buf, 3) = 6 THEN 4 .. 19 ELSE {})

AcceptReplies(req) ==
    LendReplies(req,
        { <<>>,
          <<0, 12, 0, 4, 10, 0, 0, 5, 0, 0, 0, 0, 0, 0, 0, 0, 0, 0, 0, 0, 49, 212>>,
          <<0, 7, 0, 6, 32, 1, 13, 184, 0, 0, 0, 0, 0, 0, 0, 0, 0, 0, 0, 9, 187, 1>>,
          <<0, 12, 0, 5>> }
        \cup { <<1, e>> : e \in ErrCodes },
        ReplyValids(22))

\* The replies that matter to the caller of accept: a connection, nothing
\* pending, a failed call.
AcceptOutcomes(req) ==
    { Reply("Ok", "MemoryReturned", 22,
            PokeAt(req, 0, <<0, 12, 0, 4, 10, 0, 0, 5, 0, 0, 0, 0, 0, 0, 0, 0, 0, 0,
                             0, 0, 49, 212>>), 0),
      Reply("Ok", "MemoryReturned", 2, PokeAt(req, 0, <<1, NetError_WouldBlock>>), 0),
      Reply("Err", "", None, req, 0) }

Accept(a, r) ==
    /\ Live(a)
    /\ LET l == listeners[a]
           res == AcceptResult(l, r)
       IN  /\ streams' = Keep(IF res.tag = "Ok" THEN Ok(res.val[1]) ELSE res)
           /\ call' = Call("accept", a, 0)
           /\ msg' = AcceptMsg(l)
           /\ reply' = r
           /\ result' = res
           /\ reads' = AcceptReads(r)
    /\ cbuf' = <<>>
    /\ UNCHANGED <<listeners, handle_count, closes, svc>>

\* TcpListener::set_nonblocking
ListenerSetNonblocking(a, nonblocking) ==
    /\ Live(a)
    /\ listeners' = [listeners EXCEPT ![a].nonblocking = nonblocking]
    /\ call' = Call("listener_set_nonblocking", a, nonblocking)
    /\ msg' = NoMsg
    /\ reply' = NoReply
    /\ result' = Ok(0)
    /\ reads' = {}
    /\ cbuf' = <<>>
    /\ UNCHANGED <<handle_count, closes, streams, svc>>

\* TcpListener::set_ttl
ListenerSetTtlMsg(l, ttl) == BlockingScalar("network", Opcode(37, l.fd), ttl)
ListenerSetTtlResult(r) == IF r.tr = "Ok" THEN Ok(0) ELSE Err("InvalidInput")

ListenerSetTtl(a, ttl, r) ==
    /\ Live(a)
    /\ call' = Call("listener_set_ttl", a, ttl)
    /\ msg' = ListenerSetTtlMsg(listeners[a], ttl)
    /\ reply' = r
    /\ result' = ListenerSetTtlResult(r)
    /\ reads' = {}
    /\ cbuf' = <<>>
    /\ UNCHANGED <<listeners, handle_count, closes, streams, svc>>

\* TcpListener::ttl
ListenerTtlMsg(l) == BlockingScalar("network", Opcode(36, l.fd), 0)
ListenerTtlResult(r) ==
    IF r.tr = "Ok"
    THEN IF r.shape = "Scalar1" THEN Ok(r.val) ELSE Err("InvalidInput")
    ELSE Err("InvalidInput")

ListenerTtl(a, r) ==
    /\ Live(a)
    /\ call' = Call("listener_ttl", a, 0)
    /\ msg' = ListenerTtlMsg(listeners[a])
    /\ reply' = r
    /\ result' = ListenerTtlResult(r)
    /\ reads' = {}
    /\ cbuf' = <<>>
    /\ UNCHANGED <<listeners, handle_count, closes, streams, svc>>


(***************************************************************************)
(* TcpStream.                                                              *)
(***************************************************************************)
\* core::time::Duration { secs, nanos }
Dur(secs, nanos) == [secs |-> secs, nanos |-> nanos]
DurationZERO == Dur(0, 0)
\* Duration::as_millis
AsMillis(d) == d.secs * 1000 + d.nanos \div 1000000
\* The durations callers pass: zero, half a millisecond, 2.5 ms, a second.
Durations == { DurationZERO, Dur(0, 500000), Dur(0, 2500000), Dur(1, 0) }
\* Option<Duration>
NoDuration == [d |-> DurationZERO, some |-> FALSE]
Some(d) == [d |-> d, some |-> TRUE]

\* u32::MAX.  The model's integers end at 2^31 - 1, which stands for it; every
\* duration drawn is far below.
U32_MAX == 2147483647

RECURSIVE LeBytes(_, _)
LeBytes(x, n) == IF n = 0 THEN <<>> ELSE <<x % 256>> \o LeBytes(x \div 256, n - 1)
U32LE(buf, i) ==
    RAt(buf, i) + 256 * RAt(buf, i + 1) + 65536 * RAt(buf, i + 2)
        + 16777216 * RAt(buf, i + 3)

Alive(s) == streams[s].st = "live"

\* connect_timeout: the request page
ConnectRequest(addr, duration) ==
    PokeAt(ZeroPage, 0,
           LeBytes16(addr.port) \o LeBytes(AsMillis(duration), 8)
               \o <<addr.ver>> \o addr.octets)
ConnectMsg(addr, duration) ==
    LendMut("network", 30, ConnectRequest(addr, duration), None, MemorySizeNew(4096))

\* A connect that takes the first byte of the page for the status.
ConnectResultByteStatus(addr, r) ==
    IF IsMemoryReturned(r)
    THEN IF RAt(r.buf, 0) /= 0 \/ r.valid = None
         THEN Err("InvalidInput")
         ELSE Ok(Stream(U16LE(r.buf, 2), U16LE(r.buf, 4), U16LE(r.buf, 6), addr, 0, 0))
    ELSE Err("InvalidInput")
\* A connect that takes the first word of the page for the handle.
ConnectResultHandleWord0(addr, r) ==
    IF IsMemoryReturned(r)
    THEN IF U16LE(r.buf, 0) /= 0 \/ r.valid = None
         THEN Err("InvalidInput")
         ELSE Ok(Stream(U16LE(r.buf, 0), U16LE(r.buf, 4), U16LE(r.buf, 6), addr, 0, 0))
    ELSE Err("InvalidInput")
\* connect_timeout: the returned page decoded, as 16-bit words
ConnectResult(addr, r) ==
    IF IsMemoryReturned(r)
    THEN IF U16LE(r.buf, 0) /= 0 \/ r.valid = None
         THEN Err("InvalidInput")
         ELSE Ok(Stream(U16LE(r.buf, 2), U16LE(r.buf, 4), U16LE(r.buf, 6), addr, 0, 0))
    ELSE Err("InvalidInput")
ConnectReads(r) ==
    IF ~IsMemoryReturned(r) THEN {}
    ELSE IF U16LE(r.buf, 0) /= 0 \/ r.valid = None THEN {0, 1}
    ELSE 0 .. 7

ConnectReplies(req) ==
    LendReplies(req,
        {<<>>, <<1, 0>>, <<0, 0, 7, 0, 1, 192, 80, 0>>,
         <<0, 1, 7, 0, 1, 192, 80, 0>>}, ReplyValids(8))

ConnectTimeout(addr, duration, r) ==
    /\ LET res == ConnectResult(addr, r)
       IN  /\ streams' = Keep(res)
           /\ result' = res
    /\ call' = Call("connect_timeout", 0, [addr |-> addr, duration |-> duration])
    /\ msg' = ConnectMsg(addr, duration)
    /\ reply' = r
    /\ reads' = ConnectReads(r)
    /\ cbuf' = <<>>
    /\ UNCHANGED <<listeners, handle_count, closes, svc>>

\* connect: connect_timeout(addr, Duration::ZERO)
Connect(addr, r) ==
    /\ LET res == ConnectResult(addr, r)
       IN  /\ streams' = Keep(res)
           /\ result' = res
    /\ call' = Call("connect", 0, [addr |-> addr, duration |-> DurationZERO])
    /\ msg' = ConnectMsg(addr, DurationZERO)
    /\ reply' = r
    /\ reads' = ConnectReads(r)
    /\ cbuf' = <<>>
    /\ UNCHANGED <<listeners, handle_count, closes, svc>>

\* A timeout stored to the nearest millisecond.
TimeoutMillisNearest(timeout) ==
    IF timeout.some
    THEN Min(timeout.d.secs * 1000 + (timeout.d.nanos + 500000) \div 1000000, U32_MAX)
    ELSE 0
\* set_read_timeout / set_write_timeout: the stored milliseconds
TimeoutMillis(timeout) ==
    IF timeout.some THEN Min(AsMillis(timeout.d), U32_MAX) ELSE 0

SetReadTimeout(s, timeout) ==
    /\ Alive(s)
    /\ streams' = [streams EXCEPT ![s].read_timeout = TimeoutMillis(timeout)]
    /\ call' = Call("set_read_timeout", s, timeout)
    /\ msg' = NoMsg
    /\ reply' = NoReply
    /\ result' = Ok(0)
    /\ reads' = {}
    /\ cbuf' = <<>>
    /\ UNCHANGED <<listeners, handle_count, closes, svc>>

SetWriteTimeout(s, timeout) ==
    /\ Alive(s)
    /\ streams' = [streams EXCEPT ![s].write_timeout = TimeoutMillis(timeout)]
    /\ call' = Call("set_write_timeout", s, timeout)
    /\ msg' = NoMsg
    /\ reply' = NoReply
    /\ result' = Ok(0)
    /\ reads' = {}
    /\ cbuf' = <<>>
    /\ UNCHANGED <<listeners, handle_count, closes, svc>>

\* Duration::from_millis
FromMillis(t) == Dur(t \div 1000, (t % 1000) * 1000000)
\* read_timeout / write_timeout: the stored milliseconds as Option<Duration>
TimeoutOption(t) == IF t = 0 THEN NoDuration ELSE Some(FromMillis(t))

ReadTimeout(s) ==
    /\ Alive(s)
    /\ call' = Call("read_timeout", s, 0)
    /\ msg' = NoMsg
    /\ reply' = NoReply
    /\ result' = Ok(TimeoutOption(streams[s].read_timeout))
    /\ reads' = {}
    /\ cbuf' = <<>>
    /\ UNCHANGED <<listeners, handle_count, closes, streams, svc>>

WriteTimeout(s) ==
    /\ Alive(s)
    /\ call' = Call("write_timeout", s, 0)
    /\ msg' = NoMsg
    /\ reply' = NoReply
    /\ result' = Ok(TimeoutOption(streams[s].write_timeout))
    /\ reads' = {}
    /\ cbuf' = <<>>
    /\ UNCHANGED <<listeners, handle_count, closes, streams, svc>>

\* The caller's slices: their lengths, and their content before the call.
BufLens == (0 .. MaxSmall) \cup ((PAGE - MaxSmall) .. (PAGE + MaxSmall)) \cup {5000}
CallerBuf(len) == RCat(Run(Min(len, 1), 165), Run(len - 1, 90))
\* What the service has to deliver.
SvcBytes == RCat(RBytes(<<1, 2>>), Run(PAGE + MaxSmall, 3))

\* peek: data_to_read, and the message
PeekMsg(st, len) ==
    LendMut("network", Opcode(33, st.fd), ZeroPage, None,
            MemorySizeNew(Min(len, PAGE)))
\* A read that passes the write timeout.
ReadMsgWriteTimeout(st, len) ==
    LendMut("network", Opcode(33, st.fd), ZeroPage,
            MemoryAddressNew(st.write_timeout), MemorySizeNew(Min(len, PAGE)))
\* read: data_to_read, and the message
ReadMsg(st, len) ==
    LendMut("network", Opcode(33, st.fd), ZeroPage,
            MemoryAddressNew(st.read_timeout), MemorySizeNew(Min(len, PAGE)))

\* peek: the reply decoded.  receive_request.raw[..length] panics when length
\* is beyond the page.
PeekResult(r) ==
    IF IsMemoryReturned(r)
    THEN IF r.valid /= None
         THEN IF r.valid > PAGE THEN Panic ELSE Ok(r.valid)
         ELSE Ok(0)
    ELSE Err("InvalidInput")
\* peek: the caller's buffer afterwards
PeekCopy(buf, r) ==
    IF IsMemoryReturned(r) /\ r.valid /= None /\ r.valid <= PAGE
    THEN ZipCopy(buf, RTake(r.buf, r.valid))
    ELSE buf

\* read: the reply decoded
ReadResult(r) ==
    IF IsMemoryReturned(r)
    THEN IF r.valid /= None
         THEN IF r.valid > PAGE THEN Panic ELSE Ok(r.valid)
         ELSE Ok(0)
    ELSE Err("InvalidInput")
\* read: the caller's buffer afterwards
ReadCopy(buf, r) ==
    IF IsMemoryReturned(r) /\ r.valid /= None /\ r.valid <= PAGE
    THEN ZipCopy(buf, RTake(r.buf, r.valid))
    ELSE buf
\* peek and read: the positions of the page the copy loop reads
RxReads(len, r) ==
    IF IsMemoryReturned(r) /\ r.valid /= None /\ r.valid <= PAGE
    THEN 0 .. (Min(len, r.valid) - 1)
    ELSE {}

RxReplies(req) ==
    { Reply("Ok", "MemoryReturned", v, ZipCopy(req, RTake(SvcBytes, v)), 0) :
          v \in ValidLens }
    \cup { Reply("Ok", "Scalar1", None, req, 0), Reply("Err", "", None, req, 0) }

PeekOp(s, len, r) ==
    /\ Alive(s)
    /\ call' = Call("peek", s, len)
    /\ msg' = PeekMsg(streams[s], len)
    /\ reply' = r
    /\ result' = PeekResult(r)
    /\ cbuf' = PeekCopy(CallerBuf(len), r)
    /\ reads' = RxReads(len, r)
    /\ UNCHANGED <<listeners, handle_count, closes, streams>>

ReadOp(s, len, r) ==
    /\ Alive(s)
    /\ call' = Call("read", s, len)
    /\ msg' = ReadMsg(streams[s], len)
    /\ reply' = r
    /\ result' = ReadResult(r)
    /\ cbuf' = ReadCopy(CallerBuf(len), r)
    /\ reads' = RxReads(len, r)
    /\ UNCHANGED <<listeners, handle_count, closes, streams>>

\* write: the request page, the caller's bytes zipped into zeroes
WriteRequest(buf) == ZipCopy(ZeroPage, buf)
\* A write that declares the whole length of the caller's buffer.
WriteMsgUnclamped(st, buf) ==
    LendMut("network", Opcode(31, st.fd), WriteRequest(buf),
            MemoryAddressNew(st.write_timeout), MemorySizeNew(RLen(buf)))
WriteMsg(st, buf) ==
    LendMut("network", Opcode(31, st.fd), WriteRequest(buf),
            MemoryAddressNew(st.write_timeout), MemorySizeNew(Min(RLen(buf), PAGE)))

\* A write that takes any completed call without a page for zero bytes sent.
WriteResultLax(r) ==
    IF r.tr /= "Ok" THEN Err("InvalidInput")
    ELSE IF r.shape = "MemoryReturned"
         THEN IF U32LE(r.buf, 0) /= 0
              THEN Err("InvalidInput")
              ELSE Ok(U32LE(r.buf, 4))
         ELSE Ok(0)
\* write: the returned page decoded, as 32-bit words
WriteResult(r) ==
    IF r.tr /= "Ok" THEN Err("InvalidInput")
    ELSE IF r.shape = "MemoryReturned"
         THEN IF U32LE(r.buf, 0) /= 0
              THEN Err("InvalidInput")
              ELSE Ok(U32LE(r.buf, 4))
         ELSE Err("InvalidInput")
WriteReads(r) ==
    IF ~IsMemoryReturned(r) THEN {}
    ELSE IF U32LE(r.buf, 0) /= 0 THEN 0 .. 3
    ELSE 0 .. 7

WriteReplies(req) ==
    LendReplies(req,
        { <<>>, <<1, 0, 0, 0, 0, 0, 0, 0>>, <<0, 0, 0, 0, 1, 0, 0, 0>>,
          <<0, 0, 0, 0, 136, 19, 0, 0>> },
        ReplyValids(8))

WriteOp(s, len, r) ==
    /\ Alive(s)
    /\ call' = Call("write", s, len)
    /\ msg' = WriteMsg(streams[s], CallerBuf(len))
    /\ reply' = r
    /\ result' = WriteResult(r)
    /\ cbuf' = CallerBuf(len)
    /\ reads' = WriteReads(r)
    /\ UNCHANGED <<listeners, handle_count, closes, streams>>


\* socket_addr
SocketAddrMsg(st) == LendMut("network", Opcode(35, st.fd), ZeroPage, None, None)
SocketAddrResult(st, r) ==
    IF IsMemoryReturned(r)
    THEN IF RAt(r.buf, 0) = 4
         THEN Ok(SockAddr(4, [k \in 1 .. 4 |-> RAt(r.buf, k)], st.local_port))
         ELSE IF RAt(r.buf, 0) = 6
              THEN Ok(SockAddr(6, [k \in 1 .. 16 |-> RAt(r.buf, k)], st.local_port))
              ELSE Err("InvalidInput")
    ELSE Err("InvalidInput")
SocketAddrReads(r) ==
    IF ~IsMemoryReturned(r) THEN {}
    ELSE {0} \cup (IF RAt(r.buf, 0) = 4 THEN 1 .. 4
                   ELSE IF RAt(r.buf, 0) = 6 THEN 1 .. 16 ELSE {})

SocketAddrReplies(req) ==
    LendReplies(req,
        { <<>>, <<4, 192, 168, 1, 2>>,
          <<6, 32, 1, 13, 184, 0, 0, 0, 0, 0, 0, 0, 0, 0, 0, 0, 1>> },
        ReplyValids(5) \cup ReplyValids(17))

SocketAddrOp(s, r) ==
    /\ Alive(s)
    /\ call' = Call("socket_addr", s, 0)
    /\ msg' = SocketAddrMsg(streams[s])
    /\ reply' = r
    /\ result' = SocketAddrResult(streams[s], r)
    /\ reads' = SocketAddrReads(r)
    /\ cbuf' = <<>>
    /\ UNCHANGED <<listeners, handle_count, closes, streams, svc>>

\* The scalar operations of a stream send to the connection `self.fd as _`.
\* shutdown
ShutdownMsg(st) == BlockingScalar("fd", Opcode(34, st.fd), 0)
ShutdownResult(r) == IF r.tr = "Ok" THEN Ok(0) ELSE Err("InvalidInput")
\* set_nodelay
SetNodelayMsg(st, enabled) ==
    BlockingScalar("fd", Opcode(39, st.fd), IF enabled THEN 1 ELSE 0)
SetNodelayResult(r) == IF r.tr = "Ok" THEN Ok(0) ELSE Err("InvalidInput")
\* nodelay
NodelayMsg(st) == BlockingScalar("fd", Opcode(38, st.fd), 0)
NodelayResult(r) ==
    IF r.tr /= "Ok" THEN Err("InvalidInput")
    ELSE IF r.shape = "Scalar1" THEN Ok(r.val /= 0) ELSE Err("InvalidInput")
\* set_ttl
SetTtlMsg(st, ttl) == BlockingScalar("fd", Opcode(37, st.fd), ttl)
SetTtlResult(r) == IF r.tr = "Ok" THEN Ok(0) ELSE Err("InvalidInput")
\* ttl
TtlMsg(st) == BlockingScalar("fd", Opcode(38, st.fd), 0)
TtlResult(r) ==
    IF r.tr = "Ok"
    THEN IF r.shape = "Scalar1" THEN Ok(r.val) ELSE Err("InvalidInput")
    ELSE Err("InvalidInput")

\* A scalar operation of stream s: it sends m and returns res.
StreamScalar(s, op, arg, m, r, res) ==
    /\ Alive(s)
    /\ call' = Call(op, s, arg)
    /\ msg' = m
    /\ reply' = r
    /\ result' = res
    /\ reads' = {}
    /\ cbuf' = <<>>
    /\ UNCHANGED <<listeners, handle_count, closes, streams, svc>>

\* The time-to-live values callers set.
Ttls == {64}

Shutdown(s, r) ==
    StreamScalar(s, "shutdown", 0, ShutdownMsg(streams[s]), r, ShutdownResult(r))
SetNodelay(s, enabled, r) ==
    StreamScalar(s, "set_nodelay", enabled, SetNodelayMsg(streams[s], enabled), r,
                 SetNodelayResult(r))
Nodelay(s, r) ==
    StreamScalar(s, "nodelay", 0, NodelayMsg(streams[s]), r, NodelayResult(r))
SetTtl(s, ttl, r) ==
    StreamScalar(s, "set_ttl", ttl, SetTtlMsg(streams[s], ttl), r, SetTtlResult(r))
Ttl(s, r) ==
    StreamScalar(s, "ttl", 0, TtlMsg(streams[s]), r, TtlResult(r))

(***************************************************************************)
(* Operations that send nothing.                                           *)
(***************************************************************************)
\* An unimplemented operation that reports a general error.
UnimplOther == Err("Other")
\* unimpl!(): return Err(ErrorKind::Unsupported)
Unimpl == Err("Unsupported")

\* An operation of object obj that only returns res.
Local(op, obj, arg, res) ==
    /\ call' = Call(op, obj, arg)
    /\ msg' = NoMsg
    /\ reply' = NoReply
    /\ result' = res
    /\ reads' = {}
    /\ cbuf' = <<>>
    /\ UNCHANGED <<listeners, handle_count, closes, streams, svc>>

\* TcpStream::duplicate, set_linger, linger, take_error, set_nonblocking
StreamDuplicate(s) == Alive(s) /\ Local("stream_duplicate", s, 0, Unimpl)
SetLinger(s, timeout) == Alive(s) /\ Local("set_linger", s, timeout, Unimpl)
Linger(s) == Alive(s) /\ Local("linger", s, 0, Unimpl)
TakeError(s) == Alive(s) /\ Local("take_error", s, 0, Unimpl)
SetNonblocking(s, nonblocking) ==
    Alive(s) /\ Local("set_nonblocking", s, nonblocking, Unimpl)

\* TcpListener::set_only_v6, only_v6
SetOnlyV6(a, only) == Live(a) /\ Local("set_only_v6", a, only, Unimpl)
OnlyV6(a) == Live(a) /\ Local("only_v6", a, 0, Unimpl)
\* TcpListener::take_error: Ok(None)
ListenerTakeError(a) == Live(a) /\ Local("listener_take_error", a, 0, Ok(None))

\* A peer address that takes the port this side is bound to.
PeerAddrResultLocalPort(st) ==
    Ok(SockAddr(st.peer_addr.ver, st.peer_addr.octets, st.local_port))
\* TcpStream::peer_addr: Ok(self.peer_addr)
PeerAddrResult(st) == Ok(st.peer_addr)
PeerAddr(s) == Alive(s) /\ Local("peer_addr", s, 0, PeerAddrResult(streams[s]))
\* TcpListener::socket_addr: Ok(self.local)
ListenerSocketAddr(a) ==
    Live(a) /\ Local("listener_socket_addr", a, 0, Ok(listeners[a].local))

(***************************************************************************)
(* A network service for a connection that has `pending` bytes to deliver  *)
(* and decides from the message alone.  Both services consume on a read    *)
(* that carries a timeout.  "opcode" takes every message with the receive  *)
(* opcode for a read; "scalar" takes a message with no auxiliary scalar    *)
(* for a peek.                                                             *)
(***************************************************************************)
SvcPolicies == {"opcode", "scalar"}
SvcConsumes(sv, m) == sv.policy = "opcode" \/ m.offset /= None
SvcCount(sv, m) == Min(m.valid, RLen(sv.pending))
SvcReply(sv, m) ==
    Reply("Ok", "MemoryReturned", MemorySizeNew(SvcCount(sv, m)),
          ZipCopy(m.buf, RTake(sv.pending, SvcCount(sv, m))), 0)
SvcNext(sv, m) ==
    IF SvcConsumes(sv, m)
    THEN [sv EXCEPT !.pending = RDrop(@, SvcCount(sv, m))]
    ELSE sv

\* peek and read against that service
PeekSvc(s, len) ==
    /\ PeekOp(s, len, SvcReply(svc, PeekMsg(streams[s], len)))
    /\ svc' = SvcNext(svc, PeekMsg(streams[s], len))
ReadSvc(s, len) ==
    /\ ReadOp(s, len, SvcReply(svc, ReadMsg(streams[s], len)))
    /\ svc' = SvcNext(svc, ReadMsg(streams[s], len))

\* peek, read and write against any reply
Peek(s, len, r) == PeekOp(s, len, r) /\ UNCHANGED svc
Read(s, len, r) == ReadOp(s, len, r) /\ UNCHANGED svc
Write(s, len, r) == WriteOp(s, len, r) /\ UNCHANGED svc


(***************************************************************************)
(* Specifications.                                                         *)
(***************************************************************************)
NoSvc == [policy |-> "opcode", pending |-> <<>>]

\* No socket exists yet.
Init ==
    /\ listeners = [a \in Aliases |-> FreeListener]
    /\ handle_count = [a \in Aliases |-> 0]
    /\ closes = [a \in Aliases |-> 0]
    /\ streams = [s \in StreamIds |-> FreeStream]
    /\ svc = NoSvc
    /\ cbuf = <<>>
    /\ call = Call("", 0, 0)
    /\ msg = NoMsg
    /\ reply = NoReply
    /\ result = NoResult
    /\ reads = {}

\* The life of listeners, every operation in one piece.
BindStep == \E addr \in Addrs : \E r \in BindOutcomes(BindRequest(addr)) : Bind(addr, r)
DuplicateStep == \E a \in Aliases : Duplicate(a)
DropStep == \E a \in Aliases : \E r \in ScalarReplies \cup {NoReply} : Drop(a, r)
AcceptStep ==
    \E a \in Aliases : \E r \in AcceptReplies(AcceptRequest(listeners[a])) : Accept(a, r)
ListenerSetTtlStep ==
    \E a \in Aliases : \E ttl \in Ttls : \E r \in ScalarReplies : ListenerSetTtl(a, ttl, r)
ListenerTtlStep == \E a \in Aliases : \E r \in ScalarReplies : ListenerTtl(a, r)

Next == BindStep \/ DuplicateStep \/ DropStep
Spec == Init /\ [][Next]_vars

\* The aliases of a listener on different threads: duplicate and drop step by
\* step, interleaved.
DupFetchAddStep == \E a \in Aliases : DupFetchAdd(a)
DupCloneStep == \E a \in Aliases : DupClone(a)
DropFetchSubStep == \E a \in Aliases : DropFetchSub(a)
DropTestStep == \E a \in Aliases : \E r \in ScalarReplies \cup {NoReply} : DropTest(a, r)

NextConc ==
    BindStep \/ DupFetchAddStep \/ DupCloneStep \/ DropFetchSubStep \/ DropTestStep
SpecConc == Init /\ [][NextConc]_vars


(***************************************************************************)
(* The reference count of a listener.                                      *)
(***************************************************************************)
\* The objects that share counter c, and those of them not dropped.
AliasesOf(c) == { a \in Aliases : listeners[a].st /= "free" /\ listeners[a].hc = c }
LiveOf(c) == { a \in AliasesOf(c) : listeners[a].st = "live" }
\* The objects whose drop has not begun.
AliveOf(c) == { a \in LiveOf(c) : listeners[a].pc /= "drop" }
Counters == { c \in Aliases : AliasesOf(c) /= {} }

\* C1: over every sequence of bind, duplicate and drop, the close message of
\* a listener (opcode 46 | fd << 16) has been sent once if all its aliases are
\* dropped and not at all while one is left; a drop sends it exactly when it
\* takes handle_count from 1 to 0, whatever the service replies.
CloseSentOnceByLastDrop ==
    /\ \A c \in Counters :
           closes[c] = (IF LiveOf(c) = {} THEN 1 ELSE 0)
    /\ call.op = "drop" =>
           LET l == listeners[call.obj]
           IN  IF call.arg = 1 /\ handle_count[l.hc] = 0
               THEN /\ msg.kind = "scalar"
                    /\ msg.op = 46 + l.fd * 65536
                    /\ reply \in ScalarReplies
               ELSE /\ msg = NoMsg
                    /\ handle_count[l.hc] = call.arg - 1
                    /\ handle_count[l.hc] > 0

\* C1 happens: a listener was duplicated twice or more, every alias is
\* dropped, the one close message is out and the service answered it with an
\* error.
CloseAfterLastOfThree ==
    /\ call.op = "drop"
    /\ Cardinality(AliasesOf(listeners[call.obj].hc)) >= 3
    /\ LiveOf(listeners[call.obj].hc) = {}
    /\ closes[listeners[call.obj].hc] = 1
    /\ reply.tr = "Err"

\* C2: in every interleaving of the atomic steps of duplicate and drop on the
\* aliases of a listener, at most one drop gets 1 from fetch_sub, the close
\* message is sent at most once, and handle_count is not 0 while an alias
\* whose drop has not begun exists.
AtMostOneLastDrop ==
    \A c \in Counters :
        /\ closes[c] <= 1
        /\ Cardinality({ a \in AliasesOf(c) :
                            /\ listeners[a].pc = "drop" \/ listeners[a].st = "dead"
                            /\ listeners[a].prev = 1 }) <= 1
        /\ AliveOf(c) /= {} => handle_count[c] > 0

\* C2 happens: two drops of one listener are both past their fetch_sub and
\* before their test, one of them the last, while a third alias was dropped.
TwoDropsInFlight ==
    \E a, b \in Aliases :
        /\ a /= b
        /\ listeners[a].hc = listeners[b].hc
        /\ listeners[a].st = "live" /\ listeners[a].pc = "drop" /\ listeners[a].prev = 2
        /\ listeners[b].st = "live" /\ listeners[b].pc = "drop" /\ listeners[b].prev = 1
        /\ Cardinality(AliasesOf(listeners[a].hc)) >= 3

\* C3: handle_count is 1 right after a successful bind; whenever no duplicate
\* or drop is under way it equals the number of live objects sharing it; a
\* duplicate returns an object with the fd, the local address and the counter
\* of its source, and sends no message.
CountIsLiveAliases ==
    /\ call.op = "bind" /\ result.tag = "Ok" =>
           /\ handle_count[result.val.hc] = 1
           /\ Cardinality(LiveOf(result.val.hc)) = 1
    /\ (\A a \in Aliases : listeners[a].pc = "idle") =>
           \A c \in Counters : handle_count[c] = Cardinality(LiveOf(c))
    /\ call.op \in {"duplicate", "duplicate_fetch_add"} => msg = NoMsg
    /\ call.op = "duplicate" =>
           /\ result.tag = "Ok"
           /\ listeners[call.arg].st = "live"
           /\ result.val.fd = listeners[call.obj].fd
           /\ result.val.local = listeners[call.obj].local
           /\ result.val.hc = listeners[call.obj].hc
           /\ listeners[call.arg].fd = listeners[call.obj].fd
           /\ listeners[call.arg].local = listeners[call.obj].local
           /\ listeners[call.arg].hc = listeners[call.obj].hc

\* C3 happens: a duplicate has just returned, nothing is under way, and the
\* counter of a listener with a dropped alias stands at 2.
DuplicateAfterDrop ==
    /\ call.op = "duplicate"
    /\ \A a \in Aliases : listeners[a].pc = "idle"
    /\ handle_count[listeners[call.obj].hc] = 2
    /\ Cardinality(AliasesOf(listeners[call.obj].hc)) = 3


(***************************************************************************)
(* Specifications of a stream.                                             *)
(***************************************************************************)
\* The stream that connect returns for the service's reply with handle 7.
Connected ==
    LET addr == SockAddr(4, <<10, 0, 0, 5>>, 80)
        req == ConnectRequest(addr, DurationZERO)
    IN  ConnectResult(addr, Reply("Ok", "MemoryReturned", PAGE,
                                  PokeAt(req, 0, <<0, 0, 7, 0, 1, 192, 80, 0>>), 0)).val

\* Bytes the service holds for the connection.
MaxPending == 3
PendingBytes == RBytes([i \in 1 .. MaxPending |-> i])

\* A connected stream, and a service with bytes to deliver to it.
InitPeek ==
    /\ listeners = [a \in Aliases |-> FreeListener]
    /\ handle_count = [a \in Aliases |-> 0]
    /\ closes = [a \in Aliases |-> 0]
    /\ streams = [s \in StreamIds |-> IF s = 1 THEN Connected ELSE FreeStream]
    /\ svc \in { [policy |-> p, pending |-> PendingBytes] : p \in SvcPolicies }
    /\ cbuf = <<>>
    /\ call = Call("", 0, 0)
    /\ msg = NoMsg
    /\ reply = NoReply
    /\ result = NoResult
    /\ reads = {}

Timeouts == {NoDuration} \cup { Some(d) : d \in Durations }
SetReadTimeoutStep == \E s \in StreamIds : \E t \in Timeouts : SetReadTimeout(s, t)
SetWriteTimeoutStep == \E s \in StreamIds : \E t \in Timeouts : SetWriteTimeout(s, t)
PeekSvcStep == \E s \in StreamIds : \E len \in BufLens : PeekSvc(s, len)
ReadSvcStep == \E s \in StreamIds : \E len \in BufLens : ReadSvc(s, len)

NextPeek == SetReadTimeoutStep \/ PeekSvcStep \/ ReadSvcStep
SpecPeek == InitPeek /\ [][NextPeek]_vars

\* A connected stream, and a service that may reply anything.
InitIO ==
    /\ listeners = [a \in Aliases |-> FreeListener]
    /\ handle_count = [a \in Aliases |-> 0]
    /\ closes = [a \in Aliases |-> 0]
    /\ streams = [s \in StreamIds |-> IF s = 1 THEN Connected ELSE FreeStream]
    /\ svc = NoSvc
    /\ cbuf = <<>>
    /\ call = Call("", 0, 0)
    /\ msg = NoMsg
    /\ reply = NoReply
    /\ result = NoResult
    /\ reads = {}

PeekStep ==
    \E s \in StreamIds : \E len \in BufLens :
        \E r \in RxReplies(PeekMsg(streams[s], len).buf) : Peek(s, len, r)
ReadStep ==
    \E s \in StreamIds : \E len \in BufLens :
        \E r \in RxReplies(ReadMsg(streams[s], len).buf) : Read(s, len, r)
\* What matters of a reply to write when the request is at stake.
WriteOutcomes(req) ==
    { Reply("Ok", "MemoryReturned", PAGE, PokeAt(req, 0, p), 0) :
          p \in { <<0, 0, 0, 0, 1, 0, 0, 0>>, <<1, 0, 0, 0, 0, 0, 0, 0>> } }
    \cup { Reply("Err", "", None, req, 0) }
WriteStep ==
    \E s \in StreamIds : \E len \in BufLens :
        \E r \in WriteOutcomes(WriteRequest(CallerBuf(len))) : Write(s, len, r)

ReadTimeoutStep == \E s \in StreamIds : ReadTimeout(s)
WriteTimeoutStep == \E s \in StreamIds : WriteTimeout(s)

NextIO ==
    \/ SetReadTimeoutStep \/ SetWriteTimeoutStep \/ ReadTimeoutStep \/ WriteTimeoutStep
    \/ PeekStep \/ ReadStep \/ WriteStep
SpecIO == InitIO /\ [][NextIO]_vars


(***************************************************************************)
(* Every operation that decodes a reply, against any reply.                *)
(***************************************************************************)
\* One listener is followed: bind is called until it succeeds.
BindAnyStep ==
    /\ FreeSlots = Aliases
    /\ \E addr \in { SockAddr(4, <<0, 0, 0, 0>>, 8080) } :
           \E r \in BindReplies(BindRequest(addr)) : Bind(addr, r)
ConnectAnyStep ==
    \E addr \in { SockAddr(4, <<10, 0, 0, 5>>, 80) } :
        \E r \in ConnectReplies(ConnectRequest(addr, DurationZERO)) :
            ConnectTimeout(addr, DurationZERO, r)
PeekAnyStep ==
    \E s \in StreamIds : \E len \in {1} :
        \E r \in RxReplies(PeekMsg(streams[s], len).buf) : Peek(s, len, r)
ReadAnyStep ==
    \E s \in StreamIds : \E len \in {1} :
        \E r \in RxReplies(ReadMsg(streams[s], len).buf) : Read(s, len, r)
WriteAnyStep ==
    \E s \in StreamIds : \E len \in {1} :
        \E r \in WriteReplies(WriteRequest(CallerBuf(len))) : Write(s, len, r)
SocketAddrStep ==
    \E s \in StreamIds : \E r \in SocketAddrReplies(ZeroPage) : SocketAddrOp(s, r)
ShutdownStep == \E s \in StreamIds : \E r \in ScalarReplies : Shutdown(s, r)
SetNodelayStep ==
    \E s \in StreamIds : \E e \in BOOLEAN : \E r \in ScalarReplies : SetNodelay(s, e, r)
NodelayStep == \E s \in StreamIds : \E r \in ScalarReplies : Nodelay(s, r)
SetTtlStep == \E s \in StreamIds : \E t \in Ttls : \E r \in ScalarReplies : SetTtl(s, t, r)
TtlStep == \E s \in StreamIds : \E r \in ScalarReplies : Ttl(s, r)

NextReply ==
    \/ BindAnyStep \/ AcceptStep \/ ConnectAnyStep
    \/ PeekAnyStep \/ ReadAnyStep \/ WriteAnyStep \/ SocketAddrStep
    \/ ShutdownStep \/ SetNodelayStep \/ NodelayStep \/ SetTtlStep \/ TtlStep
    \/ ListenerSetTtlStep \/ ListenerTtlStep
SpecReply == Init /\ [][NextReply]_vars


(***************************************************************************)
(* Reading from a stream.                                                  *)
(***************************************************************************)
\* C4: against a service that decides from the message alone, two peeks in a
\* row on a stream, with buffers of one length, return the same count and
\* leave the same bytes in the caller's buffer, whatever the read timeout.
PeekTwiceSame ==
    [][(/\ call.op = "peek" /\ call'.op = "peek"
        /\ call'.obj = call.obj /\ call'.arg = call.arg)
          => (result' = result /\ cbuf' = cbuf)]_vars

\* C5: read, peek and write declare min(len, 4096) bytes valid in their
\* message, for every length of the caller's buffer and every timeout; the
\* page write lends holds the first min(len, 4096) bytes of the caller and
\* zeroes after them.
ValidSizeIsClamped ==
    /\ call.op \in {"read", "peek", "write"} =>
           /\ msg.kind = "lend_mut"
           /\ msg.valid = (IF call.arg <= 4096 THEN call.arg ELSE 4096)
           /\ RLen(msg.buf) = 4096
    /\ call.op = "write" =>
           LET n == IF call.arg <= 4096 THEN call.arg ELSE 4096
           IN  /\ RTake(msg.buf, n) = RTake(CallerBuf(call.arg), n)
               /\ RDrop(msg.buf, n) = Run(4096 - n, 0)

\* C5 happens: a write of 5000 bytes with a write timeout set declared 4096.
WriteOf5000 ==
    /\ call.op = "write"
    /\ call.arg = 5000
    /\ streams[call.obj].write_timeout /= 0
    /\ msg.offset = streams[call.obj].write_timeout
    /\ msg.valid = 4096

\* C7: whatever the service replies to a read or a peek, the operation
\* returns a value or an error, and reads no position of the page at or
\* beyond 4096.
RxNeverAborts ==
    call.op \in {"read", "peek"} =>
        /\ result.tag \in {"Ok", "Err"}
        /\ \A i \in reads : i < 4096

(***************************************************************************)
(* Decoding replies.                                                       *)
(***************************************************************************)
\* C6: connect, write, socket_addr, bind and accept read no position of the
\* returned page at or beyond the valid length the reply declares, and fail
\* when the valid length does not cover a field.
DecodersStayInValid ==
    call.op \in {"connect_timeout", "write", "socket_addr", "bind", "accept"}
    /\ IsMemoryReturned(reply) =>
        /\ \A i \in reads : i < reply.valid
        /\ (\E i \in reads : i >= reply.valid) => result.tag = "Err"

\* The table of the error codes: code -> kind.
ErrorTable(code) ==
    IF code = NetError_SocketInUse THEN "ResourceBusy"
    ELSE IF code = NetError_Invalid THEN "InvalidInput"
    ELSE IF code = NetError_LibraryError THEN "Other"
    ELSE IF code = NetError_TimedOut THEN "TimedOut"
    ELSE IF code = NetError_WouldBlock THEN "WouldBlock"
    ELSE "Other"
\* A failing reply to bind or accept, and its error code.
Failing == IsMemoryReturned(reply) /\ RAt(reply.buf, 0) /= 0

LendOps == {"bind", "accept", "connect_timeout", "read", "peek", "write", "socket_addr"}

ScalarOpsNeedScalar ==
    call.op \in {"shutdown", "set_nodelay", "nodelay", "set_ttl", "ttl",
                 "listener_set_ttl", "listener_ttl"} =>
        /\ result.tag = "Ok" => IsScalar1(reply)
        /\ ~IsScalar1(reply) => result.tag = "Err"

(***************************************************************************)
(* The opcode of every message.                                            *)
(***************************************************************************)
\* The base operation code the protocol table gives an operation.
TableBase(op) ==
    CASE op = "connect_timeout" -> 30
      [] op = "write" -> 31
      [] op \in {"read", "peek"} -> 33
      [] op = "shutdown" -> 34
      [] op = "socket_addr" -> 35
      [] op \in {"ttl", "listener_ttl"} -> 36
      [] op \in {"set_ttl", "listener_set_ttl"} -> 37
      [] op = "nodelay" -> 38
      [] op = "set_nodelay" -> 39
      [] op = "bind" -> 44
      [] op = "accept" -> 45
      [] op = "drop" -> 46
\* The operations of a stream and of a listener that send a message.
StreamOps ==
    {"write", "read", "peek", "shutdown", "socket_addr", "ttl", "set_ttl",
     "nodelay", "set_nodelay"}
ListenerOps == {"accept", "listener_ttl", "listener_set_ttl", "drop"}

\* C11: every operation sends the opcode of the protocol table: connect 30 and
\* bind 44 alone, and an operation of a socket with handle h its base code
\* plus h * 65536; the ttl query of a stream sends base code 36.
OpcodesFollowTable ==
    /\ call.op \in {"connect_timeout", "bind"} => msg.op = TableBase(call.op)
    /\ call.op \in StreamOps =>
           msg.op = TableBase(call.op) + streams[call.obj].fd * 65536
    /\ call.op \in ListenerOps /\ msg.kind /= "none" =>
           msg.op = TableBase(call.op) + listeners[call.obj].fd * 65536

(***************************************************************************)
(* What connect and bind return.                                           *)
(***************************************************************************)
\* A reply to connect that tells success: a returned page, a valid length,
\* and 0 in the first 16-bit word.
ConnectSucceeds ==
    /\ IsMemoryReturned(reply)
    /\ reply.valid /= None
    /\ RAt(reply.buf, 0) = 0 /\ RAt(reply.buf, 1) = 0
\* connect has returned what its reply tells.
ConnectDecoded ==
    /\ result.tag = "Ok" <=> ConnectSucceeds
    /\ ConnectSucceeds =>
           /\ result.val.st = "live"
           /\ result.val.fd = RAt(reply.buf, 2) + 256 * RAt(reply.buf, 3)
           /\ result.val.local_port = RAt(reply.buf, 4) + 256 * RAt(reply.buf, 5)
           /\ result.val.remote_port = RAt(reply.buf, 6) + 256 * RAt(reply.buf, 7)
           /\ result.val.peer_addr = call.arg.addr
           /\ result.val.read_timeout = 0
           /\ result.val.write_timeout = 0
    /\ ~ConnectSucceeds => result = Err("InvalidInput")

BindSucceeds ==
    IsMemoryReturned(reply) /\ reply.valid /= None /\ RAt(reply.buf, 0) = 0
\* bind has returned what its reply tells.
BindDecoded ==
    /\ result.tag = "Ok" <=> BindSucceeds
    /\ BindSucceeds =>
           /\ result.val.st = "live"
           /\ result.val.fd = RAt(reply.buf, 1)
           /\ result.val.local = call.arg
           /\ result.val.nonblocking = FALSE
    /\ IsMemoryReturned(reply) /\ RAt(reply.buf, 0) /= 0 =>
           result = Err(IF RAt(reply.buf, 1) = NetError_SocketInUse THEN "ResourceBusy"
                        ELSE IF RAt(reply.buf, 1) = NetError_Invalid THEN "InvalidInput"
                        ELSE "Other")

ReplyOctets(n) == [k \in 1 .. n |-> RAt(reply.buf, 3 + k)]

\* C14: an accept reply with status byte 0 and version 4 or 6 at byte 3 gives
\* a stream whose handle is the little-endian value of bytes 1 and 2, whose
\* local port is the listener's, whose remote port is the little-endian value
\* of bytes 20 and 21 and whose peer address is that of bytes 4..7 (v4) or
\* 4..19 (v6) with that port, and the same address beside it; with status 0
\* and another version byte accept fails with generic-other.
AcceptReturnsWhatReplyTells ==
    call.op = "accept" /\ IsMemoryReturned(reply) /\ RAt(reply.buf, 0) = 0 =>
        IF RAt(reply.buf, 3) \in {4, 6}
        THEN /\ result.tag = "Ok"
             /\ result.val[1].st = "live"
             /\ result.val[1].fd = RAt(reply.buf, 1) + 256 * RAt(reply.buf, 2)
             /\ result.val[1].local_port = listeners[call.obj].local.port
             /\ result.val[1].remote_port = RAt(reply.buf, 20) + 256 * RAt(reply.buf, 21)
             /\ result.val[1].peer_addr = result.val[2]
             /\ result.val[2].ver = RAt(reply.buf, 3)
             /\ result.val[2].octets = ReplyOctets(IF RAt(reply.buf, 3) = 4 THEN 4 ELSE 16)
             /\ result.val[2].port = RAt(reply.buf, 20) + 256 * RAt(reply.buf, 21)
        ELSE result = Err("Other")

\* C14 happens: handle 12, version 4, octets 10, 0, 0, 5 and port 54321 have
\* given a stream with peer 10.0.0.5:54321, on the listener's port 8080.
AcceptedFrom10005 ==
    /\ call.op = "accept"
    /\ result.tag = "Ok"
    /\ streams[1] = result.val[1]
    /\ result.val[1].fd = 12
    /\ result.val[1].local_port = 8080
    /\ result.val[1].peer_addr = SockAddr(4, <<10, 0, 0, 5>>, 54321)
    /\ result.val[2] = SockAddr(4, <<10, 0, 0, 5>>, 54321)

(***************************************************************************)
(* A listener, its duplicates, their nonblocking flags and accept.         *)
(***************************************************************************)
BindFirstStep ==
    /\ FreeSlots = Aliases
    /\ \E addr \in Addrs : \E r \in BindOutcomes(BindRequest(addr)) : Bind(addr, r)
ListenerSetNonblockingStep ==
    \E a \in Aliases : \E b \in BOOLEAN : ListenerSetNonblocking(a, b)
AcceptOutcomeStep ==
    \E a \in Aliases : \E r \in AcceptOutcomes(AcceptRequest(listeners[a])) : Accept(a, r)

NextAccept ==
    BindFirstStep \/ DuplicateStep \/ ListenerSetNonblockingStep \/ AcceptOutcomeStep
SpecAccept == Init /\ [][NextAccept]_vars

\* C15: the nonblocking flag is false after bind; set_nonblocking(b) succeeds,
\* sends no message and changes only the flag of its object; byte 0 of an
\* accept request is 0 when the flag of the accepting object is true at the
\* call and 1 when it is false, and accept leaves the flag as it is.
AcceptTellsNonblocking ==
    [][/\ call'.op = "bind" /\ result'.tag = "Ok" => ~result'.val.nonblocking
       /\ call'.op = "listener_set_nonblocking" =>
              /\ result' = Ok(0)
              /\ msg' = NoMsg
              /\ listeners'[call'.obj].nonblocking = call'.arg
              /\ listeners' = [listeners EXCEPT ![call'.obj].nonblocking = call'.arg]
              /\ handle_count' = handle_count /\ closes' = closes /\ streams' = streams
       /\ call'.op = "accept" =>
              /\ RAt(msg'.buf, 0) = (IF listeners[call'.obj].nonblocking THEN 0 ELSE 1)
              /\ listeners' = listeners]_vars

\* C15 happens: an object set nonblocking has accepted with byte 0 of its
\* request 0 and been told that nothing is pending, while a duplicate of it
\* is blocking still.
NonblockingAccept ==
    /\ call.op = "accept"
    /\ listeners[call.obj].nonblocking
    /\ RAt(msg.buf, 0) = 0
    /\ result = Err("WouldBlock")
    /\ \E a \in Aliases : Live(a) /\ ~listeners[a].nonblocking

WholeMillis(timeout) ==
    IF timeout.some
    THEN timeout.d.secs * 1000 + timeout.d.nanos \div 1000000
    ELSE 0
\* Option<Duration> of whole milliseconds, 0 giving None.
OfWholeMillis(t) ==
    IF t = 0
    THEN [d |-> [secs |-> 0, nanos |-> 0], some |-> FALSE]
    ELSE [d |-> [secs |-> t \div 1000, nanos |-> (t % 1000) * 1000000], some |-> TRUE]

StreamDuplicateStep == \E s \in StreamIds : StreamDuplicate(s)
SetLingerStep == \E s \in StreamIds : \E t \in {NoDuration, Some(Dur(1, 0))} : SetLinger(s, t)
LingerStep == \E s \in StreamIds : Linger(s)
TakeErrorStep == \E s \in StreamIds : TakeError(s)
SetNonblockingStep == \E s \in StreamIds : \E b \in BOOLEAN : SetNonblocking(s, b)
SetOnlyV6Step == \E a \in Aliases : \E b \in BOOLEAN : SetOnlyV6(a, b)
OnlyV6Step == \E a \in Aliases : OnlyV6(a)
ListenerTakeErrorStep == \E a \in Aliases : ListenerTakeError(a)

NextLocal ==
    \/ BindFirstStep \/ DuplicateStep \/ ConnectAnyStep
    \/ StreamDuplicateStep \/ SetLingerStep \/ LingerStep \/ TakeErrorStep
    \/ SetNonblockingStep
    \/ SetOnlyV6Step \/ OnlyV6Step \/ ListenerTakeErrorStep
SpecLocal == Init /\ [][NextLocal]_vars

\* C17: duplicate, linger, set_linger, take_error and set_nonblocking of a
\* stream fail with unsupported, send nothing and leave the stream as it is;
\* set_only_v6 and only_v6 of a listener fail with unsupported and take_error
\* of a listener succeeds with no error, and none of them sends a message or
\* changes handle_count.
UnsupportedOpsDoNothing ==
    [][/\ call'.op \in {"stream_duplicate", "linger", "set_linger", "take_error",
                        "set_nonblocking", "set_only_v6", "only_v6"} =>
              result' = [kind |-> "Unsupported", val |-> 0, tag |-> "Err"]
       /\ call'.op = "listener_take_error" =>
              result' = [kind |-> "", val |-> 0, tag |-> "Ok"]
       /\ call'.op \in {"stream_duplicate", "linger", "set_linger", "take_error",
                        "set_nonblocking", "set_only_v6", "only_v6",
                        "listener_take_error"} =>
              /\ msg' = NoMsg
              /\ streams' = streams
              /\ listeners' = listeners
              /\ handle_count' = handle_count
              /\ closes' = closes]_vars

\* C17 happens: duplicate of a connected stream has failed with unsupported,
\* beside a listener and its duplicate.
StreamDuplicateRefused ==
    /\ call.op = "stream_duplicate"
    /\ streams[call.obj].st = "live"
    /\ result.tag = "Err" /\ result.kind = "Unsupported"
    /\ \E a \in Aliases : Live(a) /\ handle_count[listeners[a].hc] = 2

(***************************************************************************)
(* Addresses and ports through the encoders and the decoders.              *)
(***************************************************************************)
CodecIps ==
    { <<4, <<0, 0, 0, 0>>>>, <<4, <<10, 0, 0, 5>>>>, <<4, <<192, 168, 1, 2>>>>,
      <<4, <<255, 255, 255, 255>>>>,
      <<6, <<0, 0, 0, 0, 0, 0, 0, 0, 0, 0, 0, 0, 0, 0, 0, 1>>>>,
      <<6, <<1, 2, 3, 4, 5, 6, 7, 8, 9, 10, 11, 12, 13, 14, 15, 16>>>>,
      <<6, <<32, 1, 13, 184, 0, 0, 0, 0, 0, 0, 0, 0, 0, 0, 0, 1>>>>,
      <<6, <<255, 255, 255, 255, 255, 255, 255, 255, 255, 255, 255, 255, 255,
             255, 255, 255>>>> }
CodecPorts == {1, 80, 255, 256, 443, 8080, 54321, 65535}

\* The n bytes of buf from position i on.
Bytes(buf, i, n) == [k \in 1 .. n |-> RAt(buf, i + k - 1)]

\* A successful accept reply that carries the port found at [0:2) of the
\* request req, and the version and the octets found at position `at` of it.
AcceptPageOf(req, at) ==
    Reply("Ok", "MemoryReturned", MemorySizeNew(PAGE),
          PokeAt(PokeAt(ZeroPage, 3, Bytes(req, at, 17)), 20, Bytes(req, 0, 2)), 0)
\* A socket_addr reply that carries the version and the octets found at
\* position `at` of the request req.
SocketAddrPageOf(req, at) ==
    Reply("Ok", "MemoryReturned", MemorySizeNew(PAGE),
          PokeAt(ZeroPage, 0, Bytes(req, at, 17)), 0)

\* An address encoded by encoder enc ("bind", "connect") and decoded by
\* decoder dec ("accept", "socket_addr").  socket_addr takes the port from
\* the stream's local_port field, which is given the request's port as
\* accept reads its port.
RoundTrip(addr, enc, dec) ==
    LET req == IF enc = "bind" THEN BindMsg(addr) ELSE ConnectMsg(addr, DurationZERO)
        at == IF enc = "bind" THEN 2 ELSE 10
        r == IF dec = "accept" THEN AcceptPageOf(req.buf, at)
             ELSE SocketAddrPageOf(req.buf, at)
        res == IF dec = "accept"
               THEN AcceptResult(Listener(1, NoAddr, 1, FALSE), r)
               ELSE SocketAddrResult(Stream(1, U16LE(req.buf, 0), 0, NoAddr, 0, 0), r)
    IN  /\ call' = Call("round_trip", 0, addr)
        /\ msg' = req
        /\ reply' = r
        /\ result' = IF dec = "accept" /\ res.tag = "Ok" THEN Ok(res.val[2]) ELSE res
        /\ reads' = {}
        /\ cbuf' = <<>>
        /\ UNCHANGED <<listeners, handle_count, closes, streams, svc>>

BindThenAcceptStep ==
    \E ip \in CodecIps : \E port \in CodecPorts :
        RoundTrip(SockAddr(ip[1], ip[2], port), "bind", "accept")
BindThenSocketAddrStep ==
    \E ip \in CodecIps : \E port \in CodecPorts :
        RoundTrip(SockAddr(ip[1], ip[2], port), "bind", "socket_addr")
ConnectThenAcceptStep ==
    \E ip \in CodecIps : \E port \in CodecPorts :
        RoundTrip(SockAddr(ip[1], ip[2], port), "connect", "accept")
ConnectThenSocketAddrStep ==
    \E ip \in CodecIps : \E port \in CodecPorts :
        RoundTrip(SockAddr(ip[1], ip[2], port), "connect", "socket_addr")
NextCodec ==
    \/ BindThenAcceptStep \/ BindThenSocketAddrStep
    \/ ConnectThenAcceptStep \/ ConnectThenSocketAddrStep
SpecCodec == Init /\ [][NextCodec]_vars

\* C18: an IPv4 or IPv6 address and a port from 1 to 65535, written as bind
\* and connect write them and read as accept and socket_addr read them, come
\* back as they were.
AddressRoundTrips ==
    call.op = "round_trip" =>
        /\ result.tag = "Ok"
        /\ result.val = call.arg

\* C18 happens: an IPv6 address whose sixteen octets all differ, with a port
\* whose two bytes differ, has gone through connect's encoder and accept's
\* decoder.
RoundTripOf54321 ==
    /\ call.op = "round_trip"
    /\ call.arg.ver = 6 /\ call.arg.port = 54321
    /\ call.arg.octets[1] = 1 /\ call.arg.octets[16] = 16
    /\ msg.op = 30
    /\ U16LE(reply.buf, 20) = 54321

(***************************************************************************)
(* The handles of streams.                                                 *)
(***************************************************************************)
\* The streams that an operation has just created.
NewStreams == { s \in StreamIds : streams[s].st = "free" /\ streams'[s].st = "live" }

\* C19: whatever handles the service returns to successful connects and
\* accepts, no two live streams hold the same handle, and the handle of a
\* live stream never changes.
HandlesNeverShared ==
    [][/\ \A s, t \in StreamIds :
              (s /= t /\ streams'[s].st = "live" /\ streams'[t].st = "live") =>
                  streams'[s].fd /= streams'[t].fd
       /\ \A s \in StreamIds :
              streams[s].st = "live" =>
                  streams'[s].st = "live" /\ streams'[s].fd = streams[s].fd]_vars

\* C19, as the code has it: a stream is created only by a successful
\* connect or accept, which gives it the handle its reply carries (the word
\* at [2:4) for connect, at [1:3) for accept), whether or not a live stream
\* holds that handle already; and the handle of a live stream never changes.
HandleIsTheRepliedOne ==
    [][/\ \A s \in NewStreams :
              /\ call'.op \in {"connect_timeout", "accept"}
              /\ result'.tag = "Ok"
              /\ call'.op = "connect_timeout" => streams'[s].fd = U16LE(reply'.buf, 2)
              /\ call'.op = "accept" => streams'[s].fd = U16LE(reply'.buf, 1)
       /\ (/\ call'.op \in {"connect_timeout", "accept"}
           /\ result'.tag = "Ok"
           /\ FreeStreams /= {}) => NewStreams = {NextStream}
       /\ \A s \in StreamIds :
              streams[s].st = "live" =>
                  streams'[s].st = "live" /\ streams'[s].fd = streams[s].fd]_vars

\* C19 happens: the service has answered an accept with handle 7, which the
\* stream of an earlier connect holds, and both streams are live.
TwoStreamsHandle7 ==
    /\ call.op = "accept" /\ result.tag = "Ok"
    /\ U16LE(reply.buf, 1) = 7
    /\ streams[1].st = "live" /\ streams[1].fd = 7 /\ streams[1].remote_port = 80
    /\ streams[2].st = "live" /\ streams[2].fd = 7 /\ streams[2].peer_addr.ver = 6

(***************************************************************************)
(* The timeout of a connect request.                                       *)
(***************************************************************************)
ConnectStep ==
    \E addr \in { SockAddr(4, <<10, 0, 0, 5>>, 80) } :
        \E r \in ConnectReplies(ConnectRequest(addr, DurationZERO)) : Connect(addr, r)
ConnectTimeoutStep ==
    \E addr \in { SockAddr(4, <<10, 0, 0, 5>>, 80) } : \E duration \in Durations :
        \E r \in ConnectReplies(ConnectRequest(addr, duration)) :
            ConnectTimeout(addr, duration, r)
NextConnect == ConnectStep \/ ConnectTimeoutStep
SpecConnect == Init /\ [][NextConnect]_vars

\* C20: bytes [2:10) of a connect request are 0 exactly when the caller asked
\* for no timeout: connect writes 0 there, and connect_timeout with a
\* duration that is not zero, be it below one millisecond, writes a value
\* that is not 0.
TimeoutZeroOnlyForNoTimeout ==
    /\ call.op = "connect" => Bytes(msg.buf, 2, 8) = <<0, 0, 0, 0, 0, 0, 0, 0>>
    /\ (call.op = "connect_timeout" /\ call.arg.duration /= DurationZERO) =>
           Bytes(msg.buf, 2, 8) /= <<0, 0, 0, 0, 0, 0, 0, 0>>

(***************************************************************************)
(* What read and peek return.                                              *)
(***************************************************************************)
\* C21: a read or a peek whose reply is a returned page without a valid
\* length returns 0 and leaves the caller's buffer as it was; with a valid
\* length n it returns n, the first min(n, len) bytes of the caller's buffer
\* being those of the page and the rest as they were; and it fails only when
\* the reply is not a returned page.
RxReturnsValidLength ==
    call.op \in {"read", "peek"} =>
        /\ (IsMemoryReturned(reply) /\ reply.valid = None) =>
               /\ result = Ok(0)
               /\ cbuf = CallerBuf(call.arg)
        /\ (IsMemoryReturned(reply) /\ reply.valid /= None) =>
               /\ result = Ok(reply.valid)
               /\ LET k == Min(reply.valid, call.arg)
                  IN  /\ RTake(cbuf, k) = RTake(reply.buf, k)
                      /\ RDrop(cbuf, k) = RDrop(CallerBuf(call.arg), k)
        /\ result.tag /= "Ok" => ~IsMemoryReturned(reply)

(***************************************************************************)
(* Timeouts are passed on, not enforced.                                   *)
(***************************************************************************)
\* C22: after any timeout settings, a read's message carries in its offset
\* the read timeout the stream holds when read is called, a write's message
\* the write timeout it holds when write is called, and a peek's message
\* carries none; and the shim never fails or shortens an operation for a
\* timeout: an error comes from the reply alone, and a count is the one the
\* reply tells.
TimeoutsAreForwarded ==
    [][/\ call'.op = "read" => msg'.offset = streams[call'.obj].read_timeout
       /\ call'.op = "write" => msg'.offset = streams[call'.obj].write_timeout
       /\ call'.op = "peek" => msg'.offset = None
       /\ call'.op \in {"read", "peek"} =>
              /\ result'.tag = "Err" => ~IsMemoryReturned(reply')
              /\ result'.tag = "Ok" =>
                     /\ IsMemoryReturned(reply')
                     /\ result'.val = reply'.valid
       /\ call'.op = "write" =>
              /\ result'.tag = "Err" =>
                     ~IsMemoryReturned(reply') \/ U32LE(reply'.buf, 0) /= 0
              /\ result'.tag = "Ok" =>
                     /\ IsMemoryReturned(reply')
                     /\ result'.val = U32LE(reply'.buf, 4)]_vars

\* C22 happens: with a read timeout of 2 ms and a write timeout of 1 s, a read
\* has sent 2 and returned the bytes the service gave.
ReadCarries2Millis ==
    /\ call.op = "read"
    /\ streams[call.obj].read_timeout = 2
    /\ streams[call.obj].write_timeout = 1000
    /\ msg.offset = 2
    /\ result.tag = "Ok" /\ result.val = 1

(***************************************************************************)
(* The addresses a socket keeps.                                           *)
(***************************************************************************)
\* One listener and its duplicates, and one stream, made by connect or by
\* accept, under every operation that the stream has.
ConnectFirstStep == FreeStreams = StreamIds /\ ConnectAnyStep
AcceptFirstStep == FreeStreams = StreamIds /\ AcceptOutcomeStep
SetTimeoutStep ==
    \E s \in StreamIds : \E t \in {NoDuration, Some(Dur(1, 0))} :
        SetReadTimeout(s, t) \/ SetWriteTimeout(s, t)
PeerAddrStep == \E s \in StreamIds : PeerAddr(s)
ListenerSocketAddrStep == \E a \in Aliases : ListenerSocketAddr(a)

NextFrame ==
    \/ BindFirstStep \/ DuplicateStep \/ AcceptFirstStep \/ ConnectFirstStep
    \/ PeekAnyStep \/ ReadAnyStep \/ WriteAnyStep \/ SocketAddrStep
    \/ ShutdownStep \/ SetNodelayStep \/ NodelayStep \/ SetTtlStep \/ TtlStep
    \/ SetTimeoutStep \/ ReadTimeoutStep \/ WriteTimeoutStep
    \/ PeerAddrStep \/ ListenerSocketAddrStep
SpecFrame == Init /\ [][NextFrame]_vars

\* The operations of a stream that is already there.
StreamFrameOps ==
    {"read", "peek", "write", "shutdown", "set_read_timeout", "set_write_timeout",
     "read_timeout", "write_timeout", "set_nodelay", "nodelay", "set_ttl", "ttl",
     "socket_addr", "peer_addr"}

\* C23: peer_addr sends no message and returns the address the stream got
\* from connect (the one connected to) or accept (the one accept returned);
\* read, peek, write, shutdown, the timeout, nodelay and ttl operations and
\* socket_addr, whatever their reply, leave the handle, the local port, the
\* remote port and the peer address of every stream as they were.  socket_addr
\* of a listener sends no message and returns the address given to the bind
\* the listener comes from.
AddressesAreFixed ==
    [][/\ call'.op = "peer_addr" =>
              /\ msg' = NoMsg
              /\ result' = Ok(streams[call'.obj].peer_addr)
       /\ call'.op \in StreamFrameOps =>
              \A s \in StreamIds :
                  /\ streams'[s].st = streams[s].st
                  /\ streams'[s].fd = streams[s].fd
                  /\ streams'[s].local_port = streams[s].local_port
                  /\ streams'[s].remote_port = streams[s].remote_port
                  /\ streams'[s].peer_addr = streams[s].peer_addr
       /\ \A s \in NewStreams :
              /\ call'.op = "connect_timeout" => streams'[s].peer_addr = call'.arg.addr
              /\ call'.op = "accept" => streams'[s].peer_addr = result'.val[2]
       /\ call'.op = "listener_socket_addr" =>
              /\ msg' = NoMsg
              /\ result' = Ok(listeners[call'.obj].local)
       /\ \A a \in Aliases :
              /\ (listeners[a].st = "live" /\ listeners'[a].st = "live") =>
                     listeners'[a].local = listeners[a].local
              /\ (listeners[a].st = "free" /\ listeners'[a].st = "live") =>
                     /\ call'.op = "bind" => listeners'[a].local = call'.arg
                     /\ call'.op = "duplicate" =>
                            listeners'[a].local = listeners[call'.obj].local]_vars

\* C23 happens: peer_addr of a stream connected to 10.0.0.5:80, whose read
\* timeout was set to 1 s since, has returned 10.0.0.5:80, beside a listener
\* bound to port 8080.
PeerAddrOf10005 ==
    /\ call.op = "peer_addr"
    /\ result.tag = "Ok"
    /\ result.val.octets = <<10, 0, 0, 5>> /\ result.val.port = 80
    /\ streams[call.obj].read_timeout = 1000
    /\ \E a \in Aliases : Live(a) /\ listeners[a].local.port = 8080

(***************************************************************************)
(* Telling a peek from a read.                                             *)
(***************************************************************************)
\* C24: in every state of a stream, the message a peek sends differs (in its
\* opcode, its offset or its valid size) from the message a read of a buffer
\* of the same length sends, also when the read timeout is 0.
PeekMsgDiffersFromReadMsg ==
    /\ call.op = "peek" =>
           LET rd == ReadMsg(streams[call.obj], call.arg)
           IN  msg.op /= rd.op \/ msg.offset /= rd.offset \/ msg.valid /= rd.valid
    /\ call.op = "read" =>
           LET pk == PeekMsg(streams[call.obj], call.arg)
           IN  msg.op /= pk.op \/ msg.offset /= pk.offset \/ msg.valid /= pk.valid

(***************************************************************************)
(* The counts read, peek and write return.                                 *)
(***************************************************************************)
\* C25: whatever the service replies, a read, a peek or a write that succeeds
\* returns a count of at most min(len, 4096), the bytes the call asked for.
CountWithinRequest ==
    (call.op \in {"read", "peek", "write"} /\ result.tag = "Ok") =>
        result.val <= Min(call.arg, 4096)

(***************************************************************************)
(* The close message and the other messages of a listener.                 *)
(***************************************************************************)
\* One listener whose aliases are owned by different threads: duplicate and
\* drop step by step, interleaved with accept, set_ttl and ttl.
NextClose ==
    \/ BindFirstStep \/ DupFetchAddStep \/ DupCloneStep
    \/ DropFetchSubStep \/ DropTestStep
    \/ AcceptOutcomeStep \/ ListenerSetTtlStep \/ ListenerTtlStep
SpecClose == Init /\ [][NextClose]_vars

\* C26: in every interleaving of accept, set_ttl, ttl, duplicate and drop
\* over the aliases of a listener, no accept, ttl or set_ttl message with the
\* listener's handle is sent once its close message is out: the close message
\* is the last its aliases send, every alias being dropped by then or inside
\* its drop, past the test of the count.
CloseIsTheLastMessage ==
    [][/\ call'.op \in {"accept", "listener_ttl", "listener_set_ttl"} =>
              /\ msg'.op % 65536 \in {36, 37, 45}
              /\ msg'.op \div 65536 = listeners[call'.obj].fd
              /\ closes[listeners[call'.obj].hc] = 0
       /\ \A c \in Counters :
              closes[c] > 0 =>
                  /\ closes'[c] = closes[c]
                  /\ \A a \in AliasesOf(c) :
                         listeners'[a].st = "dead" \/ listeners'[a].pc = "drop"]_vars

\* C26 happens: the last of three aliases is dropped and the close message
\* is out, after an accept through one of them gave a stream.
ClosedAfterAccept ==
    /\ call.op = "drop"
    /\ msg.kind = "scalar" /\ msg.op = 46 + listeners[call.obj].fd * 65536
    /\ closes[listeners[call.obj].hc] = 1
    /\ Cardinality(AliasesOf(listeners[call.obj].hc)) = 3
    /\ streams[1].st = "live" /\ streams[1].fd = 12

(***************************************************************************)
(* The nonblocking flag of each alias.                                     *)
(***************************************************************************)
\* C27: the nonblocking flag belongs to the object: duplicate gives the new
\* listener the value the source's flag has at that time and leaves the
\* source's as it is, set_nonblocking on an alias leaves the flag of every
\* other object as it is, and accept tells the flag of the object it is
\* called on.
NonblockingIsPerObject ==
    [][/\ call'.op = "duplicate" =>
              /\ listeners'[call'.arg].nonblocking = listeners[call'.obj].nonblocking
              /\ \A b \in Aliases \ {call'.arg} :
                     listeners'[b].nonblocking = listeners[b].nonblocking
       /\ call'.op = "listener_set_nonblocking" =>
              \A b \in Aliases \ {call'.obj} :
                  listeners'[b].nonblocking = listeners[b].nonblocking
       /\ call'.op = "accept" =>
              /\ RAt(msg'.buf, 0) = (IF listeners'[call'.obj].nonblocking THEN 0 ELSE 1)
              /\ \A b \in Aliases : listeners'[b].nonblocking = listeners[b].nonblocking]_vars

\* C27 happens: a listener set nonblocking has just been duplicated, the
\* duplicate is nonblocking too, and an earlier duplicate of the same
\* listener is blocking still.
DuplicateOfNonblocking ==
    /\ call.op = "duplicate"
    /\ listeners[call.obj].nonblocking
    /\ listeners[call.arg].nonblocking
    /\ \E b \in Aliases :
           /\ Live(b)
           /\ listeners[b].hc = listeners[call.obj].hc
           /\ ~listeners[b].nonblocking

=============================================================================
